---------------------------- MODULE Spec2Model ----------------------------
(***************************************************************************)
(* Readily: audit-question extraction, context retrieval and evidence      *)
(* verification (src/app.py).                                              *)
(*                                                                         *)
(* Text.  A Python str is a sequence of pieces.  A piece [c, n, o] is      *)
(*   - one character c (n = 1, o = 0), e.g. " ", "\n", ",", "?", "7";      *)
(*   - an atom taken whole (n = Len(c), o = 0): a word ("Does"), one of    *)
(*     the fixed strings of the code (the four literals of the block       *)
(*     markers, the sentinel and diagnostic messages);                     *)
(*   - a run of n copies of the character "~": long stretches of page      *)
(*     text, so that the 400, 500, 800, 12000 and 18000 character limits   *)
(*     of the code are met with their real values;                         *)
(*   - a fragment of an atom left by slicing: characters o+1 .. o+n of c.  *)
(* len(s) is the sum of the n of the pieces of s.  The curly quotes of     *)
(* the quote pattern are the one-character pieces "ldquo" and "rdquo".     *)
(* Words in the texts below are separated by non-word pieces and a run of  *)
(* "~" is never quoted, so that searching by pieces is searching by        *)
(* characters.                                                             *)
(***************************************************************************)
EXTENDS Integers, Sequences, FiniteSets, TLC

VARIABLES
  \* extract_questions_from_pdf (src/app.py:78-97)
  cleaned_lines,           \* the cleaned lines the loop runs over
  li,                      \* number of lines the loop has processed
  current_question_lines,  \* the accumulator
  questions,               \* the questions emitted; the batch handed to the pool
  emitted_from,            \* history: the accumulator each question was joined from
  \* one run of analyze_single_question_task (src/app.py:297-305)
  USE_SNIPPET_RETRIEVAL,   \* the configuration flag of line 16
  the_question,            \* the question of the task
  ranked,                  \* the pages the text search ranks for it, best first
  search_fails,            \* the store raises during the search
  pc,                      \* position of the task
  context_parts,           \* find_relevant_context's context_parts at its return
  prompt_context,          \* the Context text embedded in the prompt
  used_context,            \* the context analyze_question_with_gemini returns
  raw_text,                \* the text analyze_question_with_gemini returns
  call_failed,             \* the model call produced no answer
  set_order,               \* the order in which the set of phrases was iterated
  verdict,                 \* the task's result
  \* repeated runs of find_relevant_context on the same input
  run_contexts,            \* the Context each run returned
  \* upload_audit_pdf's pool (src/app.py:307-309)
  futures,                 \* per question: queued, running or done, with its result
  finished,                \* history: the order in which the tasks completed
  yielded,                 \* what the iterator of executor.map has yielded
  results                  \* the list of line 309, empty until it is built

segVars == <<cleaned_lines, li, current_question_lines, questions, emitted_from>>

taskVars == <<USE_SNIPPET_RETRIEVAL, the_question, ranked, search_fails, pc,
              context_parts, prompt_context, used_context, raw_text, call_failed,
              set_order, verdict>>

poolVars == <<futures, finished, yielded, results>>

vars == <<segVars, taskVars, run_contexts, poolVars>>

----------------------------------------------------------------------------
(* Pieces and character classes *)

Ch(c) == [c |-> c, n |-> Len(c), o |-> 0]

Run(c, k) == [c |-> c, n |-> k, o |-> 0]

T(s) == [i \in DOMAIN s |-> Ch(s[i])]

Spaces == {" ", "\n", "\t"}

Digits == {"0", "1", "2", "3", "4", "5", "6", "7", "8", "9"}

IsSpace(p) == p.c \in Spaces

IsDigit(p) == p.c \in Digits

IsWhole(p) == p.o = 0 /\ p.n = Len(p.c)

Max(a, b) == IF a >= b THEN a ELSE b

Min(a, b) == IF a <= b THEN a ELSE b

Range(f) == {f[i] : i \in DOMAIN f}

\* the least element of a set of positive integers, 0 for the empty set
Least(S) == IF S = {} THEN 0 ELSE CHOOSE i \in S : \A j \in S : i <= j

Greatest(S) == IF S = {} THEN 0 ELSE CHOOSE i \in S : \A j \in S : i >= j

\* the number of characters of pieces lo..hi of s
RECURSIVE LenBetween(_, _, _)
LenBetween(s, lo, hi) ==
  IF lo > hi THEN 0
  ELSE IF lo = hi THEN s[lo].n
  ELSE LenBetween(s, lo, (lo + hi) \div 2) + LenBetween(s, (lo + hi) \div 2 + 1, hi)

\* len(s)
TextLen(s) == LenBetween(s, 1, Len(s))

\* the character offset of piece index i
OffsetOf(s, i) == LenBetween(s, 1, i - 1)

\* <<1, ..., Len(s)>>
Indices(s) == [i \in 1..Len(s) |-> i]

RECURSIVE Flatten(_)
Flatten(ss) == IF ss = <<>> THEN <<>> ELSE ss[1] \o Flatten(Tail(ss))

\* sep.join(parts)
RECURSIVE Join(_, _)
Join(parts, sep) ==
  IF parts = <<>> THEN <<>>
  ELSE IF Len(parts) = 1 THEN parts[1]
  ELSE parts[1] \o sep \o Join(Tail(parts), sep)

\* str.lstrip, str.rstrip, str.strip
RECURSIVE LStrip(_)
LStrip(s) == IF s # <<>> /\ IsSpace(s[1]) THEN LStrip(Tail(s)) ELSE s

RECURSIVE RStrip(_)
RStrip(s) ==
  IF s # <<>> /\ IsSpace(s[Len(s)]) THEN RStrip(SubSeq(s, 1, Len(s) - 1)) ELSE s

Strip(s) == RStrip(LStrip(s))

\* re.sub(r"\s+", " ", s): every maximal run of whitespace becomes one space
SpaceFor(p) == IF IsSpace(p) THEN Ch(" ") ELSE p

Spaced(s, idx) == [k \in DOMAIN idx |-> SpaceFor(s[idx[k]])]

SubWs(s) ==
  Spaced(s, SelectSeq(Indices(s),
                      LAMBDA i : ~IsSpace(s[i]) \/ i = 1 \/ ~IsSpace(s[i - 1])))

\* the first non-whitespace piece at or after i (Len(s) + 1 if none)
RECURSIVE SkipWs(_, _)
SkipWs(s, i) == IF i <= Len(s) /\ IsSpace(s[i]) THEN SkipWs(s, i + 1) ELSE i

\* the end of the run of non-whitespace that starts at i
RECURSIVE WordEnd(_, _)
WordEnd(s, i) == IF i <= Len(s) /\ ~IsSpace(s[i]) THEN WordEnd(s, i + 1) ELSE i - 1

\* len(s.split()): the number of maximal runs of non-whitespace, from piece i on
RECURSIVE WordsFrom(_, _)
WordsFrom(s, i) ==
  IF SkipWs(s, i) > Len(s) THEN 0 ELSE 1 + WordsFrom(s, WordEnd(s, SkipWs(s, i)) + 1)

WordCount(s) == WordsFrom(s, 1)

\* s.endswith(c), c one character
EndsWith(s, c) == s # <<>> /\ s[Len(s)] = Ch(c)

\* the end of the maximal run of digits starting at i (i - 1 if none)
RECURSIVE DigitsEnd(_, _)
DigitsEnd(s, i) ==
  IF i <= Len(s) /\ IsDigit(s[i]) THEN DigitsEnd(s, i + 1) ELSE i - 1

\* \d+\. at piece i
EnumeratorAt(s, i) ==
  /\ DigitsEnd(s, i) >= i
  /\ DigitsEnd(s, i) < Len(s)
  /\ s[DigitsEnd(s, i) + 1] = Ch(".")

\* re.match(r"^\s*\d+\.", s)
MatchEnumerator(s) == EnumeratorAt(s, SkipWs(s, 1))

\* the part of piece p, which starts at character x of its string, inside [a, b)
CutPiece(p, x, a, b) ==
  [c |-> p.c,
   n |-> Min(b, x + p.n) - Max(a, x),
   o |-> IF Len(p.c) = 1 THEN 0 ELSE p.o + (Max(a, x) - x)]

\* the pieces idx of s, each cut to [a, b)
CutAll(s, idx, a, b) ==
  [k \in DOMAIN idx |-> CutPiece(s[idx[k]], OffsetOf(s, idx[k]), a, b)]

\* s[a:b] for 0 <= a, by character offsets: the pieces that reach into [a, b)
Slice(s, a, b) ==
  IF b <= a THEN <<>>
  ELSE CutAll(s, SelectSeq(Indices(s),
                           LAMBDA i : OffsetOf(s, i) < b /\ OffsetOf(s, i) + s[i].n > a),
              a, b)

\* the first piece index at which needle occurs in hay, 0 if none
FindAt(hay, needle) ==
  Least({i \in 1..(Len(hay) - Len(needle) + 1) :
           SubSeq(hay, i, i + Len(needle) - 1) = needle})

\* str.lower(), on the capitals that occur in the texts of this model
LowerC(c) ==
  CASE c = "Q" -> "q"
    [] c = "Does" -> "does"
    [] c = "Alpha" -> "alpha"
    [] c = "STATUS:" -> "status:"
    [] c = "Met" -> "met"
    [] c = "Not" -> "not"
    [] c = "EVIDENCE:" -> "evidence:"
    [] c = "From" -> "from"
    [] c = "Filename:" -> "filename:"
    [] c = "Page:" -> "page:"
    [] c = "G" -> "g"
    [] OTHER -> c

Lower(s) == [i \in DOMAIN s |-> [s[i] EXCEPT !.c = LowerC(s[i].c)]]

\* str(n) for an int n >= 0
DigitChar == <<"0", "1", "2", "3", "4", "5", "6", "7", "8", "9">>

RECURSIVE IntStr(_)
IntStr(n) ==
  IF n < 10 THEN <<Ch(DigitChar[n + 1])>>
  ELSE IntStr(n \div 10) \o <<Ch(DigitChar[(n % 10) + 1])>>

----------------------------------------------------------------------------
(* _tokenize and _pick_snippets *)

LitStart == "--- START (Filename: "

LitEnd == "--- END (Filename: "

LitPage == ", Page: "

LitClose == ") ---"

NonWord ==
  Spaces \cup {",", "?", ".", "\"", "(", ")", "~", "ldquo", "rdquo", "N/A",
               LitStart, LitEnd, LitPage, LitClose}

IsAlnum(p) == p.c \notin NonWord

\* the token, if any, that ends where a non-word piece or the text's end is met
Closed(cur) == IF cur = <<>> THEN <<>> ELSE <<cur>>

\* re.findall(r"[a-z0-9]+", s): the maximal runs of letters and digits
RECURSIVE TokenizeFrom(_, _)
TokenizeFrom(s, cur) ==
  IF s = <<>> THEN Closed(cur)
  ELSE IF IsAlnum(s[1]) THEN TokenizeFrom(Tail(s), Append(cur, s[1]))
  ELSE Closed(cur) \o TokenizeFrom(Tail(s), <<>>)

_tokenize(text) == TokenizeFrom(Lower(text), <<>>)

stop ==
  { <<Ch(w)>> : w \in {"the", "a", "an", "and", "or", "of", "to", "in", "for", "on",
                       "by", "with", "is", "are", "be", "as", "at", "that", "this",
                       "it", "from"} }

per_doc == 3

max_chars_per_snippet == 800

WindowBefore == 400

WindowAfter == 500

\* [t for t in toks if t not in excluded]
RECURSIVE Without(_, _)
Without(toks, excluded) ==
  IF toks = <<>> THEN <<>>
  ELSE (IF toks[1] \in excluded THEN <<>> ELSE <<toks[1]>>)
       \o Without(Tail(toks), excluded)

\* line 109
q_toks_nostop(question) == Without(_tokenize(question), stop)

\* lines 110-113 for the list t of tokens
PhrasesOf(t) ==
  { Join(SubSeq(t, w[2], w[2] + w[1] - 1), <<Ch(" ")>>) :
      w \in { v \in {5, 4, 3} \X (1..Len(t)) : v[2] + v[1] - 1 <= Len(t) } }

\* the set built by lines 110-113
phrases(question) == PhrasesOf(q_toks_nostop(question))

\* the orders in which "for ph in phrases" can visit the set
IterationOrders(S) ==
  { f \in [1..Cardinality(S) -> S] : \A i, j \in DOMAIN f : i # j => f[i] # f[j] }

\* lines 120-122: content[start:end] around the occurrence at offset idx
window_at(content, idx, ph_len) ==
  Slice(content, Max(0, idx - WindowBefore),
        Min(TextLen(content), idx + ph_len + WindowAfter))

\* lines 118-122 for the phrase ph, found (at # 0) or not at piece index at
add_window(content, ph, at, windows) ==
  IF at # 0
  THEN Append(windows, window_at(content, OffsetOf(content, at), TextLen(ph)))
  ELSE windows

\* lines 115-123: windows around the first occurrence of each phrase, in the
\* order the set is iterated, until per_doc are collected
RECURSIVE phrase_windows(_, _, _)
phrase_windows(content, order, windows) ==
  IF order = <<>> \/ Len(windows) >= per_doc THEN windows
  ELSE phrase_windows(content, Tail(order),
                      add_window(content, order[1],
                                 FindAt(Lower(content), order[1]), windows))

\* \n\s*\n matched at piece i: the index of its last "\n" (greedy), 0 if none
SepEnd(s, i) ==
  IF s[i] = Ch("\n")
  THEN Greatest({j \in (i + 1)..(SkipWs(s, i) - 1) : s[j] = Ch("\n")})
  ELSE 0

RECURSIVE SplitFrom(_, _)

\* i: where the first separator at or after piece `from` starts, 0 if none
SplitAt(s, from, i) ==
  IF i = 0 THEN <<SubSeq(s, from, Len(s))>>
  ELSE <<SubSeq(s, from, i - 1)>> \o SplitFrom(s, SepEnd(s, i) + 1)

\* the parts of s from piece `from` on
SplitFrom(s, from) ==
  SplitAt(s, from, Least({i \in from..Len(s) : SepEnd(s, i) # 0}))

\* re.split(r"\n\s*\n", s)
SplitParas(s) == SplitFrom(s, 1)

KeepNonEmpty(p) == IF p # <<>> THEN <<p>> ELSE <<>>

\* [p.strip() for p in parts if p.strip()]
RECURSIVE StripNonEmpty(_)
StripNonEmpty(parts) ==
  IF parts = <<>> THEN <<>>
  ELSE KeepNonEmpty(Strip(parts[1])) \o StripNonEmpty(Tail(parts))

\* line 126
paras_of(content) == StripNonEmpty(SplitParas(content))

\* lines 129-131
score(p, q_tokens) == Cardinality(q_tokens \cap Range(_tokenize(p)))

\* the first of the indices in R with the greatest key
FirstBest(key, R) ==
  CHOOSE i \in R : \A j \in R : key[j] < key[i] \/ (key[j] = key[i] /\ i <= j)

RECURSIVE SortedIdx(_, _)

TakeBest(key, R, b) == <<b>> \o SortedIdx(key, R \ {b})

\* the indices R by descending key, equal keys in their original order
SortedIdx(key, R) == IF R = {} THEN <<>> ELSE TakeBest(key, R, FirstBest(key, R))

Reorder(s, idx) == [i \in DOMAIN idx |-> s[idx[i]]]

\* sorted(paras, key=score, reverse=True), line 132
sorted_by_score(paras, q_tokens) ==
  Reorder(paras,
          SortedIdx([i \in DOMAIN paras |-> score(paras[i], q_tokens)], DOMAIN paras))

\* [w[:max_chars_per_snippet] for w in ws]
Truncate(ws) == [i \in DOMAIN ws |-> Slice(ws[i], 0, max_chars_per_snippet)]

\* scored[:per_doc]
FirstPerDoc(scored) == SubSeq(scored, 1, Min(per_doc, Len(scored)))

\* lines 124-133, the windows of lines 115-123 given
snippets_from(windows, content, question) ==
  IF windows # <<>> THEN Truncate(windows)
  ELSE Truncate(FirstPerDoc(sorted_by_score(paras_of(content),
                                            Range(_tokenize(question)))))

\* _pick_snippets(content, question); order is the iteration order of the
\* set of phrases
_pick_snippets(content, question, order) ==
  IF content = <<>> THEN <<>>
  ELSE snippets_from(phrase_windows(content, order, <<>>), content, question)

----------------------------------------------------------------------------
(* find_relevant_context *)

max_total == 18000

CursorLimit == 7

NL2 == <<Ch("\n"), Ch("\n")>>

NoDocsSentinel == <<Ch("No relevant policy documents found.")>>

SearchErrorSentinel == <<Ch("Error searching database.")>>

\* f"--- START (Filename: {filename}, Page: {page_num}) ---" and its END twin
MarkerLine(lit, filename, page_num) ==
  <<Ch(lit)>> \o filename \o <<Ch(LitPage)>> \o page_num \o <<Ch(LitClose)>>

\* doc.get("filename", "Unknown Document")
filename_of(doc) ==
  IF "filename" \in DOMAIN doc THEN doc.filename ELSE T(<<"Unknown", " ", "Document">>)

\* doc.get("page_number", "N/A"), as the f-string formats it
page_num_of(doc) ==
  IF "page_number" \in DOMAIN doc THEN IntStr(doc.page_number) ELSE <<Ch("N/A")>>

\* doc.get("content", "")
content_of(doc) == IF "content" \in DOMAIN doc THEN doc.content ELSE <<>>

\* lines 156-160
snippet_block(startm, snippets, endm) ==
  IF snippets # <<>> THEN Join(<<startm>> \o snippets \o <<endm>>, NL2) \o NL2
  ELSE <<>>

\* line 162
full_block(startm, content, endm) ==
  NL2 \o startm \o NL2 \o content \o NL2 \o endm \o NL2

\* lines 152-162: block_text, with the filename, page and inner text it was
\* built from
make_block(filename, page_num, content, snippets, snippet_mode) ==
  [ text |-> IF snippet_mode
             THEN snippet_block(MarkerLine(LitStart, filename, page_num), snippets,
                                MarkerLine(LitEnd, filename, page_num))
             ELSE full_block(MarkerLine(LitStart, filename, page_num), content,
                             MarkerLine(LitEnd, filename, page_num)),
    filename |-> filename,
    page |-> page_num,
    inner |-> IF snippet_mode THEN Join(snippets, NL2) ELSE content ]

\* lines 149-162 for one document of the cursor
block_of(doc, question, order, snippet_mode) ==
  make_block(filename_of(doc), page_num_of(doc), content_of(doc),
             _pick_snippets(content_of(doc), question, order), snippet_mode)

\* the test of line 164 with the limit not applied
fits_mut(total_len, block_len, n_parts) == TRUE

\* the test of line 164
fits(total_len, block_len, n_parts) ==
  total_len + block_len <= max_total \/ n_parts = 0

RECURSIVE assemble(_, _, _, _, _, _)

\* line 168: break
on_overflow(docs, parts, total_len, question, order, snippet_mode) == parts

\* lines 164-168 for the block b of docs[1]
accept(b, docs, parts, total_len, question, order, snippet_mode) ==
  IF b.text # <<>> /\ fits(total_len, TextLen(b.text), Len(parts))
  THEN assemble(Tail(docs), Append(parts, b), total_len + TextLen(b.text),
                question, order, snippet_mode)
  ELSE IF b.text # <<>>
  THEN on_overflow(docs, parts, total_len, question, order, snippet_mode)
  ELSE assemble(Tail(docs), parts, total_len, question, order, snippet_mode)

\* the loop of lines 148-168; returns context_parts
assemble(docs, parts, total_len, question, order, snippet_mode) ==
  IF docs = <<>> THEN parts
  ELSE accept(block_of(docs[1], question, order, snippet_mode),
              docs, parts, total_len, question, order, snippet_mode)

\* the documents the cursor yields: the ranked results, limit(7)
cursor(pages) == SubSeq(pages, 1, Min(CursorLimit, Len(pages)))

\* context_parts when the loop of lines 148-168 is left
context_parts_of(question, pages, order, snippet_mode) ==
  assemble(cursor(pages), <<>>, 0, question, order, snippet_mode)

\* "".join(context_parts)
joined(parts) == Flatten([i \in DOMAIN parts |-> parts[i].text])

\* lines 172-177
context_or_sentinel(context) == IF context = <<>> THEN NoDocsSentinel ELSE context

\* lines 170-180: what find_relevant_context returns, context_parts given;
\* raises: the search raised
context_from(parts, raises) ==
  IF raises THEN SearchErrorSentinel ELSE context_or_sentinel(joined(parts))

\* find_relevant_context(question, db)
find_relevant_context(question, pages, order, snippet_mode, raises) ==
  context_from(IF raises THEN <<>>
               ELSE context_parts_of(question, pages, order, snippet_mode),
               raises)

----------------------------------------------------------------------------
(* parse_gemini_response *)

HasComma(p) == p.c = "," \/ (p.c = LitPage /\ p.o = 0)

NoBlock(i) == [ok |-> FALSE, fname |-> <<>>, page |-> <<>>, block |-> <<>>, end |-> i]

\* the match, its END marker (tail, of tlen pieces) found at piece e or not (0)
BlockEnd(s, i, k, fname, page, tlen, e) ==
  IF e # 0
  THEN [ok |-> TRUE, fname |-> fname, page |-> page,
        block |-> SubSeq(s, k + 4, e - 1), end |-> e + tlen - 1]
  ELSE NoBlock(i)

\* ([\s\S]*?)--- END \(Filename: \1, Page: \2\) ---: the first place after
\* the START line where the END marker of the same groups stands
BlockBody(s, i, k, fname, page, tail) ==
  BlockEnd(s, i, k, fname, page, Len(tail),
           Least({a \in (k + 4)..(Len(s) - Len(tail) + 1) :
                    Lower(SubSeq(s, a, a + Len(tail) - 1)) = tail}))

\* (\d+)\) ---\n\n: the digits j+1..k, then the rest of the START line
BlockPage(s, i, j, k) ==
  IF /\ k >= j + 1
     /\ k + 3 <= Len(s)
     /\ s[k + 1] = Ch(LitClose)
     /\ s[k + 2] = Ch("\n")
     /\ s[k + 3] = Ch("\n")
  THEN BlockBody(s, i, k, SubSeq(s, i + 1, j - 1), SubSeq(s, j + 1, k),
                 Lower(MarkerLine(LitEnd, SubSeq(s, i + 1, j - 1), SubSeq(s, j + 1, k))))
  ELSE NoBlock(i)

\* ([^,]+), Page: : j is the first piece after the START literal that holds a comma
BlockName(s, i, j) ==
  IF j > i + 1 /\ s[j] = Ch(LitPage) THEN BlockPage(s, i, j, DigitsEnd(s, j + 1))
  ELSE NoBlock(i)

\* block_re matched at piece i of s:
\*   --- START \(Filename: ([^,]+), Page: (\d+)\) ---\n\n([\s\S]*?)
\*   --- END \(Filename: \1, Page: \2\) ---          (IGNORECASE)
MatchBlockAt(s, i) ==
  IF s[i] = Ch(LitStart)
  THEN BlockName(s, i, Least({a \in (i + 1)..Len(s) : HasComma(s[a])}))
  ELSE NoBlock(i)

RECURSIVE ScanFrom(_, _)

\* m: what block_re matches at piece i
ScanStep(s, i, m) ==
  IF m.ok
  THEN <<[fname |-> m.fname, page |-> m.page, block |-> m.block]>>
       \o ScanFrom(s, m.end + 1)
  ELSE ScanFrom(s, i + 1)

\* i: the first piece at which the START literal stands, 0 if there is none
ScanAt(s, i) == IF i = 0 THEN <<>> ELSE ScanStep(s, i, MatchBlockAt(s, i))

\* block_re.finditer(s) from piece i on: the groups of the successive matches
ScanFrom(s, i) == ScanAt(s, Least({a \in i..Len(s) : s[a] = Ch(LitStart)}))

ScanBlocks(context) == ScanFrom(context, 1)

IsQuoteOpen(p) == p.c \in {"\"", "ldquo"}

IsQuoteClose(p) == p.c \in {"\"", "rdquo"}

IsWord(s, i, w) == i <= Len(s) /\ LowerC(s[i].c) = w /\ IsWhole(s[i])

\* re.search(r'STATUS:\s*Met', text, re.IGNORECASE)
status_match(text) ==
  \E i \in 1..Len(text) :
    IsWord(text, i, "status:") /\ IsWord(text, SkipWs(text, i + 1), "met")

\* re.search(r'EVIDENCE:(.*)', text, IGNORECASE | DOTALL): index of the
\* marker, 0 if none
evidence_at(text) == Least({i \in 1..Len(text) : IsWord(text, i, "evidence:")})

\* group(2).strip() of the quote opened at a and closed at b, "" without match
QuoteBetween(evidence_text, a, b) ==
  IF a # 0 /\ b # 0 THEN Strip(SubSeq(evidence_text, a + 1, b - 1)) ELSE <<>>

QuoteFrom(evidence_text, a) ==
  QuoteBetween(evidence_text, a,
               Least({i \in (a + 1)..Len(evidence_text) : IsQuoteClose(evidence_text[i])}))

\* lines 234-235: re.search(r'(["ldquo])(.*?)(?:["rdquo])', evidence_text, DOTALL)
quote_of(evidence_text) ==
  QuoteFrom(evidence_text,
            Least({i \in 1..Len(evidence_text) : IsQuoteOpen(evidence_text[i])}))

NoCite == [ok |-> FALSE, fname |-> <<>>, page |-> <<>>]

\* (\d+)\s*\) : the digits p..q, then the closing parenthesis at r
CiteClose(s, g, c, p, q, r) ==
  IF q >= p /\ r <= Len(s) /\ s[r] = Ch(")")
  THEN [ok |-> TRUE, fname |-> Strip(SubSeq(s, g, c - 1)), page |-> SubSeq(s, p, q)]
  ELSE NoCite

CiteDigits(s, g, c, p, q) == CiteClose(s, g, c, p, q, SkipWs(s, q + 1))

\* Page:\s* : the word at d
CitePage(s, g, c, d) ==
  IF IsWord(s, d, "page:")
  THEN CiteDigits(s, g, c, SkipWs(s, d + 1), DigitsEnd(s, SkipWs(s, d + 1)))
  ELSE NoCite

\* ([^,]+?)\s*,\s* : the name from g up to the first comma, at c
CiteName(s, g, c) ==
  IF c > g /\ s[c] = Ch(",") THEN CitePage(s, g, c, SkipWs(s, c + 1)) ELSE NoCite

\* Filename:\s* : the word at b, after at least one whitespace behind From at a
CiteFile(s, a, b) ==
  IF b > a + 1 /\ IsWord(s, b, "filename:")
  THEN CiteName(s, b + 1, Least({x \in (b + 1)..Len(s) : HasComma(s[x])}))
  ELSE NoCite

\* From\s+ : the word at a
CiteFrom(s, a) == IF IsWord(s, a, "from") THEN CiteFile(s, a, SkipWs(s, a + 1)) ELSE NoCite

\* \(\s*From\s+Filename:\s*([^,]+?)\s*,\s*Page:\s*(\d+)\s*\) matched at piece i
CiteAt(s, i) == IF s[i] = Ch("(") THEN CiteFrom(s, SkipWs(s, i + 1)) ELSE NoCite

CiteFirst(evidence_text, at) == IF at = 0 THEN NoCite ELSE CiteAt(evidence_text, at)

\* lines 236-238: cite_match and its groups
cite_of(evidence_text) ==
  CiteFirst(evidence_text,
            Least({i \in 1..Len(evidence_text) : CiteAt(evidence_text, i).ok}))

\* re.sub(r"\s+", " ", x).lower()
Norm(x) == Lower(SubWs(x))

\* line 252, score > best_match_score: the scores are 1.0 / (block_start + 1),
\* and best_match_score is -1 as long as best_start = -1 ("none yet")
better(block_start, best_start) == best_start = -1 \/ block_start < best_start

RECURSIVE rederive(_, _, _, _)

\* lines 248-254: norm_quote found (at # 0) at piece index at of norm_block
rederive_hit(blocks, norm_quote, actual, best_start, norm_block, at) ==
  IF norm_quote # <<>> /\ at # 0 /\ better(OffsetOf(norm_block, at), best_start)
  THEN rederive(Tail(blocks), norm_quote,
                [fname |-> blocks[1].fname, page |-> blocks[1].page],
                OffsetOf(norm_block, at))
  ELSE rederive(Tail(blocks), norm_quote, actual, best_start)

\* lines 246-249
rederive_in(blocks, norm_quote, actual, best_start, norm_block) ==
  rederive_hit(blocks, norm_quote, actual, best_start, norm_block,
               FindAt(norm_block, norm_quote))

\* the loop of lines 244-254 over the scanned blocks; actual is
\* (actual_fname, actual_page), best_start the offset behind best_match_score
rederive(blocks, norm_quote, actual, best_start) ==
  IF blocks = <<>> THEN actual
  ELSE rederive_in(blocks, norm_quote, actual, best_start, Norm(blocks[1].block))

\* f"(From Filename: {fname}, Page: {page}) \"{quote_text}\""
FormatEvidence(fname, page, quote_text) ==
  T(<<"(", "From", " ", "Filename:", " ">>) \o fname \o T(<<",", " ", "Page:", " ">>)
  \o page \o T(<<")", " ", "\"">>) \o quote_text \o T(<<"\"">>)

NA == <<Ch("N/A")>>

EmptyEvidence == <<Ch("Evidence section was found but was empty.")>>

NoEvidence == <<Ch("STATUS was 'Met' but no EVIDENCE: section was found.")>>

\* lines 256-261
evidence_of(evidence_text, quote_text, found, actual) ==
  IF quote_text # <<>> /\ actual.fname # <<>> /\ actual.page # <<>>
  THEN FormatEvidence(actual.fname, actual.page, quote_text)
  ELSE IF quote_text # <<>> /\ found.fname # <<>> /\ found.page # <<>>
  THEN FormatEvidence(found.fname, found.page, quote_text)
  ELSE evidence_text

\* lines 240-254
actual_of(quote_text, found, context) ==
  IF quote_text # <<>> /\ context # <<>>
  THEN rederive(ScanBlocks(context), Norm(quote_text),
                [fname |-> found.fname, page |-> found.page], -1)
  ELSE [fname |-> found.fname, page |-> found.page]

\* lines 234-261
verified(evidence_text, quote_text, found, context) ==
  evidence_of(evidence_text, quote_text, found, actual_of(quote_text, found, context))

\* lines 233-263
parse_evidence(evidence_text, context) ==
  IF evidence_text = <<>> THEN EmptyEvidence
  ELSE verified(evidence_text, quote_of(evidence_text), cite_of(evidence_text), context)

\* lines 231-265: evidence_match found (at # 0) at piece index at or not
parse_met(text, context, at) ==
  IF at = 0 THEN NoEvidence
  ELSE parse_evidence(Strip(SubSeq(text, at + 1, Len(text))), context)

\* parse_gemini_response(text, context): (status, evidence)
parse_gemini_response(text, context) ==
  IF status_match(text)
  THEN [status |-> "Met", evidence |-> parse_met(text, context, evidence_at(text))]
  ELSE [status |-> "Not Met", evidence |-> NA]

----------------------------------------------------------------------------
(* Idle values of the variables a specification does not use *)

SegIdle ==
  /\ cleaned_lines = <<>>
  /\ li = 0
  /\ current_question_lines = <<>>
  /\ emitted_from = <<>>

NoVerdict == [question |-> <<>>, status |-> "", evidence |-> <<>>]

TaskIdle ==
  /\ search_fails = FALSE
  /\ pc = "idle"
  /\ context_parts = <<>>
  /\ prompt_context = <<>>
  /\ used_context = <<>>
  /\ raw_text = <<>>
  /\ call_failed = FALSE
  /\ set_order = <<>>
  /\ verdict = NoVerdict

StoreIdle ==
  /\ USE_SNIPPET_RETRIEVAL = TRUE
  /\ the_question = <<>>
  /\ ranked = <<>>

DetIdle == run_contexts = <<>>

PoolIdle ==
  /\ futures = <<>>
  /\ finished = <<>>
  /\ yielded = <<>>
  /\ results = <<>>

----------------------------------------------------------------------------
(* extract_questions_from_pdf, the accumulation loop over cleaned_lines *)

MinWords == 4

MaxLines == 3

LineLib ==
  { T(<<"1", ".", " ", "Does", " ", "a", " ", "b", " ", "c", "?">>),
    T(<<"2", ".", " ", "Short", "?">>),
    T(<<"Intro", " ", "heading">>),
    T(<<"3", ".", " ", "Is", " ", "it", " ", "so">>),
    T(<<"and", " ", "x", " ", "y", " ", "z", "?">>),
    T(<<"x", " ", " ", "y", "\t", "z", " ", "w", "?">>),
    T(<<"1", "0", ".", " ", "w", " ", "x", " ", "y", " ", "z", "?">>) }

LineSeqs == UNION { [1..k -> LineLib] : k \in 0..MaxLines }

\* the emission test of line 85 with the threshold one lower
AcceptLengthMut(q_text) == WordCount(q_text) > MinWords - 1

\* the emission test of line 85
AcceptLength(q_text) == WordCount(q_text) > MinWords

\* lines 83-84
q_text_of(lines) == Strip(SubWs(Strip(Join(lines, <<Ch(" ")>>))))

\* lines 82-94 for the line just appended; acc is the accumulator with it
SegLine(line, acc) ==
  IF EndsWith(line, "?")
  THEN /\ IF AcceptLength(q_text_of(acc))
          THEN /\ questions' = Append(questions, q_text_of(acc))
               /\ emitted_from' = Append(emitted_from, acc)
          ELSE UNCHANGED <<questions, emitted_from>>
       /\ current_question_lines' = <<>>
  ELSE IF MatchEnumerator(line) /\ acc # <<>>
  THEN /\ current_question_lines' = <<line>>
       /\ UNCHANGED <<questions, emitted_from>>
  ELSE /\ current_question_lines' = acc
       /\ UNCHANGED <<questions, emitted_from>>

\* one iteration of the loop of lines 80-94
SegStep ==
  /\ li < Len(cleaned_lines)
  /\ li' = li + 1
  /\ SegLine(cleaned_lines[li + 1],
             Append(current_question_lines, cleaned_lines[li + 1]))
  /\ UNCHANGED <<cleaned_lines, taskVars, run_contexts, poolVars>>

SegInit ==
  /\ cleaned_lines \in LineSeqs
  /\ li = 0
  /\ current_question_lines = <<>>
  /\ questions = <<>>
  /\ emitted_from = <<>>
  /\ StoreIdle
  /\ TaskIdle
  /\ DetIdle
  /\ PoolIdle

SegNext == SegStep

SpecSeg == SegInit /\ [][SegNext]_vars

----------------------------------------------------------------------------
(* analyze_single_question_task: analyze_question_with_gemini, then          *)
(* parse_gemini_response, for one question.  Line 184 is never true inside   *)
(* the task: upload_audit_pdf returns at line 289 when gemini_model is unset. *)

PromptLimit == 12000

MaxRanked == 3

Filler == 7000

Oversize == 19000

Q1 == T(<<"is", " ", "q", " ", "r", " ", "s", "?">>)

QuestionLib == {Q1}

DocLib ==
  { [filename |-> T(<<"a">>), page_number |-> 7,
     content |-> T(<<"x", " ", "q", " ", "r", " ", "s">>)],
    [filename |-> T(<<"b">>), page_number |-> 12,
     content |-> T(<<"Q", " ", "r", " ", " ", "s", "\n", "\n", "zz">>)],
    [filename |-> T(<<"a">>),
     content |-> T(<<"q", " ", "r", " ", "s">>)],
    [filename |-> T(<<"c">>), page_number |-> 2,
     content |-> T(<<"q", " ", "r", " ", "s", " ">>) \o <<Run("~", Filler)>>],
    [filename |-> T(<<"d">>), page_number |-> 3,
     content |-> <<Run("~", Oversize)>>],
    [filename |-> T(<<"e">>), page_number |-> 4] }

RankedLib == UNION { [1..k -> DocLib] : k \in 0..MaxRanked }

Cite(f, p) ==
  T(<<"(", "From", " ", "Filename:", " ", f, ",", " ", "Page:", " ", p, ")", " ">>)

Quoted(q) == T(<<"\"">>) \o q \o T(<<"\"">>)

StatusMet == T(<<"STATUS:", " ", "Met", "\n", "EVIDENCE:", " ">>)

\* answers the model may give
ReplyLib ==
  { T(<<"STATUS:", " ", "Not", " ", "Met">>),
    T(<<"STATUS:", " ", "Met">>),
    T(<<"status:", " ", "met", "\n", "evidence:", " ", "\n">>),
    StatusMet \o Cite("G", "1") \o Quoted(T(<<"Q", " ", " ", "r">>)),
    StatusMet \o Cite("a", "7") \o Quoted(T(<<"x", " ", "q">>)),
    StatusMet \o Cite("a", "7") \o Quoted(T(<<"z", " ", "z">>)),
    StatusMet \o Quoted(T(<<"q", " ", "r">>)),
    StatusMet \o T(<<"see">>) \o Cite("a", "7"),
    StatusMet \o Cite("G", "1") \o Quoted(<<>>) }

\* the text of the exceptions raised
ErrorLib == { T(<<"timeout">>) }

\* f"Error: Could not analyze question. {e}"
CouldNotAnalyze(e) == <<Ch("Error: Could not analyze question. ")>> \o e

EmptyResponse == <<Ch("Error: AI generated an empty response.")>>

\* f"Analysis failed: {e}"
AnalysisFailed(e) == <<Ch("Analysis failed: ")>> \o e

\* line 302
as_verdict(question, r) ==
  [question |-> question, status |-> r.status, evidence |-> r.evidence]

\* line 305
error_verdict(question, e) ==
  [question |-> question, status |-> "Error", evidence |-> AnalysisFailed(e)]

\* lines 187-195: find_relevant_context and the prompt built around context[:12000]
Retrieve ==
  /\ pc = "start"
  /\ \E order \in IterationOrders(phrases(the_question)) :
       /\ set_order' = order
       /\ context_parts' =
            IF search_fails THEN <<>>
            ELSE context_parts_of(the_question, ranked, order, USE_SNIPPET_RETRIEVAL)
  /\ used_context' = context_from(context_parts', search_fails)
  /\ prompt_context' = Slice(used_context', 0, PromptLimit)
  /\ pc' = "prompted"
  /\ UNCHANGED <<segVars, USE_SNIPPET_RETRIEVAL, the_question, ranked, search_fails,
                 raw_text, call_failed, verdict, run_contexts, poolVars>>

\* lines 216-217: the model answers
GenerateContent ==
  /\ pc = "prompted"
  /\ \E reply \in ReplyLib : raw_text' = reply
  /\ pc' = "replied"
  /\ UNCHANGED <<segVars, USE_SNIPPET_RETRIEVAL, the_question, ranked, search_fails,
                 context_parts, prompt_context, used_context, call_failed, set_order,
                 verdict, run_contexts, poolVars>>

\* line 217: response.text is empty
GenerateEmpty ==
  /\ pc = "prompted"
  /\ raw_text' = EmptyResponse
  /\ call_failed' = TRUE
  /\ pc' = "replied"
  /\ UNCHANGED <<segVars, USE_SNIPPET_RETRIEVAL, the_question, ranked, search_fails,
                 context_parts, prompt_context, used_context, set_order, verdict,
                 run_contexts, poolVars>>

\* lines 218-220: generate_content raises
GenerateRaises ==
  /\ pc = "prompted"
  /\ \E e \in ErrorLib : raw_text' = CouldNotAnalyze(e)
  /\ call_failed' = TRUE
  /\ pc' = "replied"
  /\ UNCHANGED <<segVars, USE_SNIPPET_RETRIEVAL, the_question, ranked, search_fails,
                 context_parts, prompt_context, used_context, set_order, verdict,
                 run_contexts, poolVars>>

\* lines 301-302
Parse ==
  /\ pc = "replied"
  /\ verdict' = as_verdict(the_question, parse_gemini_response(raw_text, used_context))
  /\ pc' = "done"
  /\ UNCHANGED <<segVars, USE_SNIPPET_RETRIEVAL, the_question, ranked, search_fails,
                 context_parts, prompt_context, used_context, raw_text, call_failed,
                 set_order, run_contexts, poolVars>>

\* lines 303-305: an exception escapes analyze_question_with_gemini
\* (db[COLLECTION_NAME], line 137, is outside find_relevant_context's try)
TaskRaises ==
  /\ pc = "start"
  /\ \E e \in ErrorLib : verdict' = error_verdict(the_question, e)
  /\ pc' = "done"
  /\ UNCHANGED <<segVars, USE_SNIPPET_RETRIEVAL, the_question, ranked, search_fails,
                 context_parts, prompt_context, used_context, raw_text, call_failed,
                 set_order, run_contexts, poolVars>>

Init ==
  /\ SegIdle
  /\ questions = <<>>
  /\ DetIdle
  /\ PoolIdle
  /\ the_question \in QuestionLib
  /\ \/ search_fails = FALSE /\ ranked \in RankedLib /\ USE_SNIPPET_RETRIEVAL \in BOOLEAN
     \/ search_fails = TRUE /\ ranked = <<>> /\ USE_SNIPPET_RETRIEVAL = TRUE
  /\ pc = "start"
  /\ context_parts = <<>>
  /\ prompt_context = <<>>
  /\ used_context = <<>>
  /\ raw_text = <<>>
  /\ call_failed = FALSE
  /\ set_order = <<>>
  /\ verdict = NoVerdict

Next ==
  \/ Retrieve
  \/ GenerateContent
  \/ GenerateEmpty
  \/ GenerateRaises
  \/ Parse
  \/ TaskRaises

Spec == Init /\ [][Next]_vars

----------------------------------------------------------------------------
(* find_relevant_context run again and again on the same question and the   *)
(* same ranked pages; every run is free in the order in which it iterates   *)
(* the set of phrases (the order of a set of str follows the hash seed of   *)
(* the process)                                                             *)

MaxRuns == 2

Gap == 1000

Q2 == T(<<"alpha", " ", "beta", " ", "gamma", " ", "delta", "?">>)

DetQuestionLib == {Q1, Q2}

DetDocLib ==
  { [filename |-> T(<<"a">>), page_number |-> 7,
     content |-> T(<<"Alpha", " ", "beta", " ", "gamma", " ", "delta">>)
                 \o <<Run("~", Gap)>> \o T(<<"beta", " ", "gamma", " ", "delta">>)
                 \o <<Run("~", Gap)>> \o T(<<"alpha", " ", "beta", " ", "gamma">>)],
    [filename |-> T(<<"b">>), page_number |-> 12,
     content |-> T(<<"q", " ", "r", " ", "s", " ", "alpha", " ", "beta", " ", "gamma">>)],
    [filename |-> T(<<"c">>), page_number |-> 2,
     content |-> T(<<"x", "\n", "\n", "beta", " ", "alpha">>)] }

DetRankedLib == UNION { [1..k -> DetDocLib] : k \in 0..2 }

RunAgain ==
  /\ Len(run_contexts) < MaxRuns
  /\ \E order \in IterationOrders(phrases(the_question)) :
       run_contexts' =
         Append(run_contexts,
                find_relevant_context(the_question, ranked, order,
                                      USE_SNIPPET_RETRIEVAL, FALSE))
  /\ UNCHANGED <<segVars, taskVars, poolVars>>

DetInit ==
  /\ SegIdle
  /\ questions = <<>>
  /\ TaskIdle
  /\ PoolIdle
  /\ the_question \in DetQuestionLib
  /\ ranked \in DetRankedLib
  /\ USE_SNIPPET_RETRIEVAL \in BOOLEAN
  /\ run_contexts = <<>>

DetNext == RunAgain

SpecDet == DetInit /\ [][DetNext]_vars

----------------------------------------------------------------------------
(* upload_audit_pdf: the tasks of one batch on the thread pool              *)

max_workers == 8

MaxBatch == 2

Q3 == T(<<"does", " ", "x", " ", "q", " ", "r", "?">>)

PoolQuestionLib == {Q1, Q3}

Batches == UNION { [1..k -> PoolQuestionLib] : k \in 1..MaxBatch }

PoolPages ==
  << [filename |-> T(<<"a">>), page_number |-> 7,
      content |-> T(<<"x", " ", "q", " ", "r", " ", "s">>)] >>

\* what happens to one task: the model answers, generate_content raises, or
\* db[COLLECTION_NAME] raises
OutcomeLib ==
  { [kind |-> "answer", text |-> StatusMet \o Cite("G", "1") \o Quoted(T(<<"q", " ", "r">>))],
    [kind |-> "answer", text |-> T(<<"STATUS:", " ", "Not", " ", "Met">>)],
    [kind |-> "raises", text |-> T(<<"timeout">>)],
    [kind |-> "db_raises", text |-> T(<<"timeout">>)] }

\* lines 216-220: the text analyze_question_with_gemini returns
response_text(outcome) ==
  IF outcome.kind = "answer" THEN outcome.text ELSE CouldNotAnalyze(outcome.text)

\* analyze_single_question_task(question), lines 297-305
analyze_single_question_task(question, pages, order, snippet_mode, outcome) ==
  IF outcome.kind = "db_raises" THEN error_verdict(question, outcome.text)
  ELSE as_verdict(question,
                  parse_gemini_response(response_text(outcome),
                                        find_relevant_context(question, pages, order,
                                                              snippet_mode, FALSE)))

Queued == {i \in DOMAIN futures : futures[i].st = "queued"}

Running == {i \in DOMAIN futures : futures[i].st = "running"}

\* a free worker takes the oldest task of the queue
WorkerTakes ==
  /\ Queued # {}
  /\ Cardinality(Running) < max_workers
  /\ futures' = [futures EXCEPT ![Least(Queued)].st = "running"]
  /\ UNCHANGED <<segVars, taskVars, run_contexts, finished, yielded, results>>

\* a running task returns its verdict
WorkerFinishes ==
  /\ \E i \in Running :
       /\ \E outcome \in OutcomeLib :
            \E order \in IterationOrders(phrases(questions[i])) :
              futures' =
                [futures EXCEPT
                   ![i] = [st |-> "done",
                           result |-> analyze_single_question_task(
                                        questions[i], ranked, order,
                                        USE_SNIPPET_RETRIEVAL, outcome)]]
       /\ finished' = Append(finished, i)
  /\ UNCHANGED <<segVars, taskVars, run_contexts, yielded, results>>

\* the task whose result the iterator yields next in completion order
next_result_mut(n_yielded, done_order) ==
  IF n_yielded < Len(done_order) THEN done_order[n_yielded + 1] ELSE n_yielded + 1

\* the task whose result the iterator of executor.map yields next
next_result(n_yielded, done_order) == n_yielded + 1

\* the iterator of executor.map yields the next result once it is there
Yield ==
  /\ Len(yielded) < Len(futures)
  /\ futures[next_result(Len(yielded), finished)].st = "done"
  /\ yielded' = Append(yielded, futures[next_result(Len(yielded), finished)].result)
  /\ UNCHANGED <<segVars, taskVars, run_contexts, futures, finished, results>>

\* line 309: list(...) has consumed the iterator
ListBuilt ==
  /\ results = <<>>
  /\ Len(yielded) = Len(futures)
  /\ results' = yielded
  /\ UNCHANGED <<segVars, taskVars, run_contexts, futures, finished, yielded>>

PoolInit ==
  /\ SegIdle
  /\ TaskIdle
  /\ DetIdle
  /\ USE_SNIPPET_RETRIEVAL = TRUE
  /\ the_question = <<>>
  /\ ranked = PoolPages
  /\ questions \in Batches
  /\ futures = [i \in DOMAIN questions |-> [st |-> "queued", result |-> NoVerdict]]
  /\ finished = <<>>
  /\ yielded = <<>>
  /\ results = <<>>

PoolNext ==
  \/ WorkerTakes
  \/ WorkerFinishes
  \/ Yield
  \/ ListBuilt

SpecPool == PoolInit /\ [][PoolNext]_vars

----------------------------------------------------------------------------
(* Properties *)

\* find_relevant_context has just returned, and its search did not raise
Assembled == pc = "prompted" /\ ~search_fails

\* the blocks of the pages of the cursor, as the run of the task built them
Candidates ==
  [i \in DOMAIN cursor(ranked) |->
     block_of(ranked[i], the_question, set_order, USE_SNIPPET_RETRIEVAL)]

NonEmptyBlocks == SelectSeq(Candidates, LAMBDA b : b.text # <<>>)

\* len of the first k of the blocks bs together
RECURSIVE LenUpTo(_, _)
LenUpTo(bs, k) == IF k = 0 THEN 0 ELSE LenUpTo(bs, k - 1) + TextLen(bs[k].text)

IsSentinel(context) == context \in {NoDocsSentinel, SearchErrorSentinel}

\* the quote of a final evidence string
FinalQuote == quote_of(verdict.evidence)

(* C1: a Met verdict with a non-empty quote, given for a non-empty context, *)
(* has its quote (whitespace collapsed, lower-cased) in the equally          *)
(* normalized Context of the question.                                       *)
C1_MetQuoteInContext ==
  (/\ pc = "done"
   /\ verdict.status = "Met"
   /\ used_context # <<>>
   /\ FinalQuote # <<>>)
  => FindAt(Norm(used_context), Norm(FinalQuote)) # 0

(* C2: when the model call of a question failed (generate_content raised   *)
(* or the response text was empty), the verdict of the question has status *)
(* Error.                                                                   *)
C2_FailedCallGivesError ==
  (pc = "done" /\ call_failed) => verdict.status = "Error"

(* C3: the list built from the pool has one verdict per question of the    *)
(* batch, the verdict at position i is the one of task i and carries       *)
(* question q[i], whatever the order in which the tasks completed; the     *)
(* same holds of every result the iterator has yielded so far.             *)
C3_ResultsPositional ==
  /\ \A i \in DOMAIN yielded :
        /\ i <= Len(questions)
        /\ yielded[i].question = questions[i]
        /\ yielded[i] = futures[i].result
  /\ results # <<>> =>
        /\ Len(results) = Len(questions)
        /\ \A i \in DOMAIN results :
              /\ results[i].question = questions[i]
              /\ results[i] = futures[i].result

C3_Witness ==
  /\ Len(results) = MaxBatch
  /\ finished[1] > finished[2]
  /\ \E i \in DOMAIN results : results[i].status = "Error"
  /\ \E i, j \in DOMAIN questions : questions[i] # questions[j]

(* C4: the Context assembled from up to 7 ranked pages is at most 18,000   *)
(* characters long or is one single block; the accepted blocks are the     *)
(* first of the non-empty blocks of the pages, every accepted block but    *)
(* the first keeps the running total within 18,000, and the first block    *)
(* left out, if any, would have exceeded it.                                *)
C4_ContextWithinCeiling ==
  Assembled =>
    /\ Len(ranked) <= CursorLimit
    /\ ~IsSentinel(used_context) => used_context = joined(context_parts)
    /\ TextLen(joined(context_parts)) <= max_total \/ Len(context_parts) = 1
    /\ Len(context_parts) <= Len(NonEmptyBlocks)
    /\ context_parts = SubSeq(NonEmptyBlocks, 1, Len(context_parts))
    /\ \A k \in 2..Len(context_parts) : LenUpTo(context_parts, k) <= max_total
    /\ Len(context_parts) < Len(NonEmptyBlocks) =>
          /\ Len(context_parts) >= 1
          /\ LenUpTo(NonEmptyBlocks, Len(context_parts) + 1) > max_total

C4_Witness ==
  /\ Assembled
  /\ Len(context_parts) = 1
  /\ TextLen(used_context) > max_total
  /\ Len(NonEmptyBlocks) = MaxRanked

(* C5: the block scanner of the verifier finds in the assembled Context    *)
(* exactly the blocks the assembler put there, with the same filename,     *)
(* page and inner text.                                                     *)
C5_ScannerFindsAssembledBlocks ==
  Assembled =>
    /\ Len(ScanBlocks(joined(context_parts))) = Len(context_parts)
    /\ \A i \in DOMAIN context_parts :
          /\ ScanBlocks(joined(context_parts))[i].fname = context_parts[i].filename
          /\ ScanBlocks(joined(context_parts))[i].page = context_parts[i].page
          /\ ScanBlocks(joined(context_parts))[i].block = context_parts[i].inner \o NL2

\* the offset of the normalized quote q in the inner text of block b, -1 if absent
QuoteOffset(b, q) ==
  IF FindAt(Norm(b.inner \o NL2), Norm(q)) = 0 THEN -1
  ELSE OffsetOf(Norm(b.inner \o NL2), FindAt(Norm(b.inner \o NL2), Norm(q)))

\* the blocks of the Context that hold the quote q
Holding(q) == {i \in DOMAIN context_parts : QuoteOffset(context_parts[i], q) >= 0}

\* the block with the smallest offset, the earliest one on a tie
BestBlock(q) ==
  CHOOSE i \in Holding(q) :
    \A j \in Holding(q) :
      \/ QuoteOffset(context_parts[i], q) < QuoteOffset(context_parts[j], q)
      \/ /\ QuoteOffset(context_parts[i], q) = QuoteOffset(context_parts[j], q)
         /\ i <= j

\* the answer of the model carries a quote and a citation
CitedQuote ==
  /\ status_match(raw_text)
  /\ evidence_at(raw_text) # 0
  /\ quote_of(SubSeq(raw_text, evidence_at(raw_text) + 1, Len(raw_text))) # <<>>
  /\ cite_of(SubSeq(raw_text, evidence_at(raw_text) + 1, Len(raw_text))).ok

(* C6: for a Met answer with a quote and a citation, the final evidence    *)
(* cites the block of the Context in which the quote first occurs at the   *)
(* smallest offset (the earliest block on a tie) when some block holds the *)
(* quote, and the citation of the model otherwise.                          *)
C6_CitationCorrected ==
  (pc = "done" /\ ~search_fails /\ ~call_failed /\ context_parts # <<>> /\ CitedQuote) =>
    LET ev == SubSeq(raw_text, evidence_at(raw_text) + 1, Len(raw_text))
        q == quote_of(ev)
    IN verdict.evidence =
         IF Holding(q) # {}
         THEN FormatEvidence(context_parts[BestBlock(q)].filename,
                             context_parts[BestBlock(q)].page, q)
         ELSE FormatEvidence(cite_of(ev).fname, cite_of(ev).page, q)

(* C7: two runs of find_relevant_context for the same question on the same *)
(* ranked pages return the same Context.                                    *)
C7_RunsAgree ==
  \A i, j \in DOMAIN run_contexts : run_contexts[i] = run_contexts[j]

(* C8: every emitted question ends with '?' and has more than 4            *)
(* whitespace-separated words, and after a line ending in '?' the          *)
(* accumulator is empty.                                                    *)
C8_EmittedAreQuestions ==
  /\ \A k \in 1..Len(questions) :
        /\ EndsWith(questions[k], "?")
        /\ WordCount(questions[k]) >= 5
  /\ (li >= 1 /\ EndsWith(cleaned_lines[li], "?")) => current_question_lines = <<>>

C8_Witness ==
  /\ Len(questions) >= 1
  /\ li = Len(cleaned_lines)
  /\ Len(questions) < Cardinality({i \in 1..li : EndsWith(cleaned_lines[i], "?")})

(* C9: no emitted question contains text of lines that preceded the        *)
(* enumerator line that starts it: an enumerator line is only ever the     *)
(* first line of the accumulation a question is joined from.               *)
C9_EnumeratorStartsQuestion ==
  \A k \in 1..Len(emitted_from) :
    \A j \in 2..Len(emitted_from[k]) : ~MatchEnumerator(emitted_from[k][j])

(* C10: the context handed to parse_gemini_response is exactly the Context *)
(* text that was embedded in the prompt of the question.                    *)
C10_VerifierContextIsPromptContext ==
  pc \in {"replied", "done"} => used_context = prompt_context

=============================================================================
